---------------------------- MODULE Spec2Model ----------------------------
(***************************************************************************)
(* HttpsProxy (src/https-server.ts): the life of one connection, which     *)
(* carries a CONNECT request, from the server's 'connect' event to the end *)
(* of the tunnel, or another request, from the 'request' event to the end  *)
(* of the forwarded fetch.                                                 *)
(*                                                                         *)
(* A string of the request line is a sequence of one-character strings, so *)
(* that split, parseInt, url.parse and the hostname regex are computed the *)
(* way the code computes them.  A chunk handed to socket.write is a TLA+   *)
(* string; the bytes a stream received are the concatenation of its chunks.*)
(***************************************************************************)
EXTENDS Integers, Sequences, FiniteSets, TLC

\* ------------------------------------------------------------------ bounds

\* Longest CONNECT target enumerated character by character.
MaxUrlLen == 2
\* Payload chunks the two pipes of a tunnel copy, both directions together.
MaxData == 1

\* The connections the listener holds at once.
MaxConns == 2

\* ------------------------------------------------------- program constants

MaxHostnameLen == 253
MaxPort == 65535
\* this.timeout when PROXY_TIMEOUT is not set, in milliseconds.
DefaultTimeout == 30000
\* The timeout handleConnect sets on the client socket.
ConnectTimeout == 60000
\* The timeout both sockets get when the 200 response is sent.
EstablishedTimeout == 120000

\* --------------------------------------------------------- character data

Letters ==
  {"a","b","c","d","e","f","g","h","i","j","k","l","m","n","o","p","q","r","s",
   "t","u","v","w","x","y","z","A","B","C","D","E","F","G","H","I","J","K","L",
   "M","N","O","P","Q","R","S","T","U","V","W","X","Y","Z"}

Digits == {"0","1","2","3","4","5","6","7","8","9"}

\* The character class of /^[a-zA-Z0-9.-]+$/.
HostnameChars == Letters \cup Digits \cup {".", "-"}

\* Characters at which url.parse ends the host of "//<authority>".
NonHostChars ==
  {"/", "?", "#", "%", ";", "|", "{", "}", "\\", "^", "`", "<", ">", "\"", " ", "'"}

DigitVal(c) ==
  CASE c = "0" -> 0 [] c = "1" -> 1 [] c = "2" -> 2 [] c = "3" -> 3
    [] c = "4" -> 4 [] c = "5" -> 5 [] c = "6" -> 6 [] c = "7" -> 7
    [] c = "8" -> 8 [] c = "9" -> 9

\* ------------------------------------------------------- string functions

Includes(s, c) == \E i \in 1..Len(s) : s[i] = c

\* Index of the first occurrence of a character of cs in s, Len(s)+1 if none.
FirstOf(s, cs) ==
  IF \E i \in 1..Len(s) : s[i] \in cs
  THEN CHOOSE i \in 1..Len(s) : s[i] \in cs /\ \A j \in 1..(i-1) : s[j] \notin cs
  ELSE Len(s) + 1

\* s.split(':')[0]
SplitPart0(s) == SubSeq(s, 1, FirstOf(s, {":"}) - 1)

\* s.split(':')[1], the empty string when there is no second part.
SplitPart1(s) ==
  LET rest == SubSeq(s, FirstOf(s, {":"}) + 1, Len(s))
  IN  SubSeq(rest, 1, FirstOf(rest, {":"}) - 1)

\* The value of a run of decimal digits.
RECURSIVE DigitsValue(_)
DigitsValue(ds) ==
  IF ds = <<>> THEN 0
  ELSE 10 * DigitsValue(SubSeq(ds, 1, Len(ds) - 1)) + DigitVal(ds[Len(ds)])

\* parseInt(s, 10): an optional sign, then the longest prefix of digits; NaN
\* when there is no digit.
parseInt(s) ==
  LET signed == s # <<>> /\ s[1] \in {"+", "-"}
      body == IF signed THEN Tail(s) ELSE s
      n == FirstOf(body, {c \in {body[i] : i \in 1..Len(body)} : c \notin Digits}) - 1
      v == DigitsValue(SubSeq(body, 1, n))
  IN  IF n = 0 THEN [nan |-> TRUE, val |-> 0]
      ELSE [nan |-> FALSE, val |-> IF signed /\ s[1] = "-" THEN 0 - v ELSE v]

\* url.parse(`//${s}`).hostname for an s without ':': the host ends at the
\* first character that cannot be part of a host.
UrlParseHostname(s) == SubSeq(s, 1, FirstOf(s, NonHostChars) - 1)

DefaultPortText == <<"4", "4", "3">>

\* hostname and targetPort as handleConnect derives them from req.url.
ParseTarget(u) ==
  IF Includes(u, ":")
  THEN [hostname |-> SplitPart0(u),
        port |-> parseInt(IF SplitPart1(u) = <<>> THEN DefaultPortText
                          ELSE SplitPart1(u))]
  ELSE [hostname |-> IF UrlParseHostname(u) # <<>> THEN UrlParseHostname(u) ELSE u,
        port |-> parseInt(DefaultPortText)]

HostnameMissing(h) ==
  \/ h = <<>>
  \/ h = <<"n","u","l","l">>
  \/ h = <<"u","n","d","e","f","i","n","e","d">>

\* The format test without its length limit.
HostnameFormatOk_NoLengthLimit(h) ==
  /\ h # <<>>
  /\ \A i \in 1..Len(h) : h[i] \in HostnameChars

HostnameFormatOk(h) ==
  /\ h # <<>>
  /\ \A i \in 1..Len(h) : h[i] \in HostnameChars
  /\ Len(h) <= MaxHostnameLen

PortOk(p) == ~p.nan /\ p.val > 0 /\ p.val <= MaxPort

\* ------------------------------------------ forward-fetch: URL and headers

\* A prefix test that every string passes.
startsWith_Always(s, prefix) == Len(s) >= 0 /\ Len(prefix) >= 0

\* s.startsWith(prefix)
startsWith(s, prefix) ==
  Len(s) >= Len(prefix) /\ SubSeq(s, 1, Len(prefix)) = prefix

HttpPrefix == <<"h","t","t","p",":","/","/">>
HttpsPrefix == <<"h","t","t","p","s",":","/","/">>

\* The decimal digits of a natural number.
RECURSIVE ToDigits(_)
ToDigits(n) ==
  IF n < 10 THEN <<CHOOSE c \in Digits : DigitVal(c) = n>>
  ELSE ToDigits(n \div 10) \o <<CHOOSE c \in Digits : DigitVal(c) = n % 10>>

\* Index of the last occurrence of c in s, 0 if none.
LastOf(s, c) ==
  IF Includes(s, c)
  THEN CHOOSE i \in 1..Len(s) : s[i] = c /\ \A j \in (i+1)..Len(s) : s[j] # c
  ELSE 0

DefaultPort(protocol) == IF protocol = "https:" THEN 443 ELSE 80

\* Characters a host of an http(s) URL may not contain.
ForbiddenHostChars == NonHostChars \cup {"[", "]", "@", ":"}

\* new URL(u) for a u that starts with http:// or https://: ok is FALSE when
\* the constructor throws; port is "" for a missing or default port and the
\* port's canonical digits otherwise.
ParseURL(u) ==
  LET protocol == IF startsWith(u, HttpsPrefix) THEN "https:" ELSE "http:"
      rest == SubSeq(u, (IF protocol = "https:" THEN 9 ELSE 8), Len(u))
      authEnd == FirstOf(rest, {"/", "?", "#", "\\"})
      authority == SubSeq(rest, 1, authEnd - 1)
      hostport == SubSeq(authority, LastOf(authority, "@") + 1, Len(authority))
      host == SubSeq(hostport, 1, FirstOf(hostport, {":"}) - 1)
      portText == SubSeq(hostport, FirstOf(hostport, {":"}) + 1, Len(hostport))
      portOk == /\ \A i \in 1..Len(portText) : portText[i] \in Digits
                /\ DigitsValue(portText) <= MaxPort
      hostOk == /\ host # <<>>
                /\ \A i \in 1..Len(host) : host[i] \notin ForbiddenHostChars
      tail == SubSeq(rest, authEnd, Len(rest))
      pathAndSearch == SubSeq(tail, 1, FirstOf(tail, {"#"}) - 1)
  IN  [ok |-> hostOk /\ portOk,
       protocol |-> protocol,
       hostname |-> host,
       port |-> IF portText = <<>> \/ ~portOk
                   \/ DigitsValue(portText) = DefaultPort(protocol)
                THEN <<>> ELSE ToDigits(DigitsValue(portText)),
       path |-> IF pathAndSearch = <<>> \/ pathAndSearch[1] = "?"
                THEN <<"/">> \o pathAndSearch ELSE pathAndSearch]

\* Bytes matched by /[\x00-\x1f\x7f-\xff]/, each written as one token.
ControlBytes == {"<00>", "<1f>", "<7f>", "<ff>"}

MaxHostHeaderLen == 255

\* req.headers is a set of <<name, value>> pairs, names in lower case.
HeaderValue(headers, name) ==
  IF \E h \in headers : h[1] = name
  THEN (CHOOSE h \in headers : h[1] = name)[2]
  ELSE <<>>

\* delete headers[name]
deleteHeader(headers, name) == {h \in headers : h[1] # name}

\* headers[name] = value
setHeader(headers, name, value) == deleteHeader(headers, name) \cup {<<name, value>>}

\* The test handleHttpRequest applies to the Host header of a request whose
\* url is not absolute.
HostHeaderSuspicious(headers) ==
  LET host == HeaderValue(headers, "host")
  IN  \/ host = <<>>
      \/ Len(host) > MaxHostHeaderLen
      \/ \E i \in 1..Len(host) : host[i] \in ControlBytes

validMethods == {"GET", "POST", "PUT", "DELETE", "HEAD", "OPTIONS", "PATCH"}

\* The header names handleHttpRequest deletes from the copied headers.
DeletedHeaders ==
  {"host", "proxy-connection", "proxy-authorization", "connection", "upgrade",
   "sec-websocket-key", "sec-websocket-version", "sec-websocket-protocol"}

\* The outbound headers with the port always spelled out in Host.
OutboundHeaders_AlwaysPort(headers, parsedUrl) ==
  LET kept == {h \in headers : h[1] \notin DeletedHeaders}
      host == parsedUrl.hostname \o <<":">> \o
              (IF parsedUrl.port # <<>> THEN parsedUrl.port
               ELSE ToDigits(DefaultPort(parsedUrl.protocol)))
  IN  setHeader(kept, "host", host)

\* options.headers: the copy of req.headers after the deletes and with the
\* Host header set from the parsed URL.
OutboundHeaders(headers, parsedUrl) ==
  LET kept == {h \in headers : h[1] \notin DeletedHeaders}
      host == IF parsedUrl.port # <<>>
              THEN parsedUrl.hostname \o <<":">> \o parsedUrl.port
              ELSE parsedUrl.hostname
  IN  IF parsedUrl.hostname # <<>> THEN setHeader(kept, "host", host) ELSE kept

\* ------------------------------------------------------------------ inputs

\* Characters the enumerated CONNECT targets are made of.
UrlAlphabet == {"a", ":", "|"}

SeqsUpTo(S, n) == UNION {[1..k -> S] : k \in 0..n}

LongHost(n) == [i \in 1..n |-> "a"]

\* Targets with a port, a sign, a bracket or a long hostname.
SampleUrls ==
  { <<"a",":","4","4","3">>, <<"a",":","0">>, <<"a",":","-","1">>,
    <<"a",":","4","4","3","|">>, <<"a",":","6","5","5","3","6">>,
    <<"n","u","l","l",":","8","0">>,
    <<"[",":",":","1","]",":","4","4","3">>,
    LongHost(MaxHostnameLen) \o <<":","6","5","5","3","5">>,
    LongHost(MaxHostnameLen + 1) \o <<":","6","5","5","3","5">> }

Urls == SeqsUpTo(UrlAlphabet, MaxUrlLen) \cup SampleUrls

\* Bytes the request parser read past the CONNECT request ("" when none).
Heads == {"", "<head>"}
\* Bytes the HTTP client read past the upstream's reply ("" when none).
ProxyHeads == {"", "<proxyHead>"}
\* this.upstreamProxy, by the scheme of its URL ("none": null).
UpstreamSchemes == {"none", "http", "https", "ftp"}
\* Status codes an upstream proxy answers a CONNECT with.
UpstreamStatuses == {200, 403}
\* The upstream's replies: a success with or without bytes read past it, a
\* refusal.
UpstreamReplies ==
  {r \in [status : UpstreamStatuses, proxyHead : ProxyHeads] :
     r.status = 200 \/ r.proxyHead = ""}

\* Methods of the enumerated 'request' events.
Methods == {"GET", "OPTIONS", "TRACE"}

\* req.url of the enumerated 'request' events: origin-form, absolute with
\* another scheme, and absolute http(s) URLs with and without (default) ports.
RequestUrls ==
  { <<"/">>,
    <<"f","t","p",":","/","/","a","/">>,
    HttpPrefix \o <<"a">>,
    HttpPrefix \o <<"a",":","8","0","/","p">>,
    HttpPrefix \o <<"a",":","4","4","3","/">>,
    HttpPrefix \o <<"a",":","0","8","0","8","0">>,
    HttpsPrefix \o <<"a","/","p","?","q">>,
    HttpsPrefix \o <<"a",":","4","4","3">>,
    HttpsPrefix \o <<"a",":","8","0">>,
    HttpPrefix \o <<":","8","0">>,
    HttpPrefix \o <<"a",":","6","5","5","3","6">>,
    HttpPrefix \o <<"a",":","x">> }

\* The Host header a client sends to the proxy.
ClientHost == <<"p","r","o","x","y">>

PlainHeaders == {<<"host", ClientHost>>, <<"accept", <<"*">>>>}

\* req.headers of the enumerated 'request' events.
HeaderSets ==
  { {},
    PlainHeaders,
    PlainHeaders \cup
      { <<"proxy-connection", <<"k">>>>, <<"proxy-authorization", <<"b">>>>,
        <<"connection", <<"k">>>>, <<"upgrade", <<"w">>>>,
        <<"sec-websocket-key", <<"x">>>>, <<"sec-websocket-version", <<"1","3">>>>,
        <<"sec-websocket-protocol", <<"c">>>> },
    PlainHeaders \cup {<<"sec-websocket-extensions", <<"d">>>>},
    {<<"host", LongHost(MaxHostHeaderLen + 1)>>},
    {<<"host", <<"a", "<00>", "<ff>">>>>} }

\* The urls every header set is tried with: origin-form, another scheme, http.
HeaderTrialUrls ==
  { <<"/">>, <<"f","t","p",":","/","/","a","/">>, HttpPrefix \o <<"a">> }

\* The enumerated 'request' events: every method and url with plain headers,
\* every header set with GET and a url of each form.
Requests ==
  {[method |-> m, url |-> u, headers |-> PlainHeaders] : m \in Methods, u \in RequestUrls}
  \cup {[method |-> "GET", url |-> u, headers |-> hs] : u \in HeaderTrialUrls, hs \in HeaderSets}

\* Error messages of a failed outbound request.
FetchErrors == {"ECONNREFUSED"}
\* Status codes an origin answers a forwarded request with.
OriginStatuses == {200}

\* ----------------------------------------------------------- upstream resolver

\* The environment variables detectUpstreamProxy reads, in its order.
ProxyVariables ==
  <<"https_proxy", "HTTPS_PROXY", "http_proxy", "HTTP_PROXY", "all_proxy", "ALL_PROXY">>

\* process.env[name]; an unset variable is undefined, which is falsy as ''.
EnvGet(e, name) == IF name \in DOMAIN e THEN e[name] ELSE <<>>

\* value.trim().  A value is a sequence of tokens: " " for a white space
\* character and the scheme of the proxy URL for the URL.
RECURSIVE trim(_)
trim(v) ==
  IF v = <<>> THEN v
  ELSE IF Head(v) = " " THEN trim(Tail(v))
  ELSE IF v[Len(v)] = " " THEN trim(SubSeq(v, 1, Len(v) - 1))
  ELSE v

\* The resolver with the priority list read backwards.
detectUpstreamProxy_Reversed(e) ==
  LET proxies == [i \in 1..Len(ProxyVariables) |-> EnvGet(e, ProxyVariables[i])]
      set == {i \in 1..Len(proxies) : trim(proxies[i]) # <<>>}
  IN  IF set = {} THEN "none"
      ELSE trim(proxies[CHOOSE i \in set : \A j \in set : i >= j])[1]

\* detectUpstreamProxy(): the trimmed value of the first variable whose
\* trimmed value is not empty, by the scheme of its URL; "none" for null.
detectUpstreamProxy(e) ==
  LET proxies == [i \in 1..Len(ProxyVariables) |-> EnvGet(e, ProxyVariables[i])]
      set == {i \in 1..Len(proxies) : trim(proxies[i]) # <<>>}
  IN  IF set = {} THEN "none"
      ELSE trim(proxies[CHOOSE i \in set : \A j \in set : i <= j])[1]

\* The environments the proxy is constructed in: one whose variables are
\* unset, empty or blank, and one for each variable of the list being the
\* first that is set.
Environments ==
  { ("https_proxy" :> <<>>) @@ ("http_proxy" :> <<" ">>) @@ ("ALL_PROXY" :> <<" ", " ">>),
    ("https_proxy" :> <<"https">>) @@ ("HTTPS_PROXY" :> <<"http">>)
      @@ ("http_proxy" :> <<"ftp">>) @@ ("ALL_PROXY" :> <<"http">>),
    ("https_proxy" :> <<" ">>) @@ ("HTTPS_PROXY" :> <<"ftp">>) @@ ("http_proxy" :> <<"http">>),
    ("HTTPS_PROXY" :> <<>>) @@ ("http_proxy" :> <<" ", "http", " ">>)
      @@ ("HTTP_PROXY" :> <<"ftp">>) @@ ("all_proxy" :> <<"https">>),
    ("http_proxy" :> <<" ", " ">>) @@ ("HTTP_PROXY" :> <<"ftp">>) @@ ("all_proxy" :> <<"https">>),
    ("all_proxy" :> <<"ftp">>) @@ ("ALL_PROXY" :> <<"http">>),
    ("ALL_PROXY" :> <<"ftp">>) }

\* ------------------------------------------------------------------- state

VARIABLES
  upstreamProxy,     \* this.upstreamProxy, by scheme
  phase,             \* where the connection is: "accepted", then for a CONNECT
                     \* "rejected", "aborted", "dialing", "proxyDialing",
                     \* "failed", "abandoned", "tunnel", and "request" for
                     \* any other request
  hostname,          \* handleConnect's hostname
  targetPort,        \* handleConnect's targetPort
  head,              \* the head buffer of the 'connect' event
  proxyHead,         \* the proxyHead buffer of proxyReq's 'connect' event
  upstreamStatus,    \* proxyRes.statusCode (0: no reply yet)
  client,            \* the client socket
  outbound,          \* serverSocket (direct) or proxySocket (upstream)
  writes,            \* every chunk accepted by a socket.write, in program order
  pending,           \* socket events emitted and not yet delivered
  connectionClosed,  \* setupSocketErrorHandlers' flag
  cleanupRuns,       \* times the body of cleanup ran
  cleanupCalled,     \* cleanup was called at least once
  timeoutCb,         \* sockets whose setTimeout callback is still registered
  piped,             \* the two pipes are installed
  tickPending,       \* the process.nextTick callback is queued
  writeCb,           \* the callback of socket.write(response) is queued
  timedOut,          \* the dial's timeout has fired
  dials,             \* outbound connections started
  sent,              \* payload chunks the pipes have copied
  env,               \* process.env, the six proxy variables
  req,               \* the request of a 'request' event: method, url, headers
  res,               \* its ServerResponse
  options,           \* the options handleHttpRequest passes to httpModule.request
  proxyReq,          \* the outbound request of handleHttpRequest
  proc,              \* the process: "loading", "starting", "running", "exited"
  exitCode,          \* its exit code, -1 while it runs
  listening,         \* server.listening
  signalHandlers,    \* whether the SIGINT and SIGTERM handlers are installed
  startup,           \* how startup went: "pending", "ok", "tls", "bind"
  signal,            \* the signal that was handled, "none" before
  conns,             \* the connections of the listener, by slot
  lastLog            \* the last event a handler logged, with its log entries

vars ==
  <<upstreamProxy, phase, hostname, targetPort, head, proxyHead, upstreamStatus,
    client, outbound, writes, pending, connectionClosed, cleanupRuns,
    cleanupCalled, timeoutCb, piped, tickPending, writeCb, timedOut, dials, sent,
    env, req, res, options, proxyReq,
    proc, exitCode, listening, signalHandlers, startup, signal, conns, lastLog>>

\* The variables of the process and its listener.
procVars ==
  <<proc, exitCode, listening, signalHandlers, startup, signal, conns, lastLog>>

\* The variables of the forward-fetch path.
fetchVars == <<req, res, options, proxyReq>>

\* The variables of the CONNECT path, phase excepted.
tunnelVars ==
  <<hostname, targetPort, head, proxyHead, upstreamStatus, client, outbound,
    writes, pending, connectionClosed, cleanupRuns, cleanupCalled, timeoutCb,
    piped, tickPending, writeCb, timedOut, dials, sent>>

NoRequest == [method |-> "", url |-> <<>>, headers |-> {}]

\* A ServerResponse nothing was written to.  writeHeadCalls counts the calls
\* of res.writeHead.
NewResponse ==
  [statusCode |-> 0, contentType |-> "", body |-> "", headersSent |-> FALSE,
   finished |-> FALSE, writeHeadCalls |-> 0]

NoOptions ==
  [hostname |-> <<>>, port |-> <<>>, path |-> <<>>, method |-> "", headers |-> {},
   agent |-> "none"]

\* No outbound request.  state: "none", "sent" (waiting for the response),
\* "responding" (proxyRes is piped to res), "complete" (proxyRes ended).
NoProxyReq ==
  [state |-> "none", destroyed |-> FALSE, errorPending |-> FALSE, error |-> "",
   timedOut |-> FALSE]

Sides == {"client", "outbound"}
Events == {"error", "close", "end", "timeout"}

NoSocket ==
  [state |-> "none", destroyed |-> FALSE, writableEnded |-> FALSE,
   readableEnded |-> FALSE, timeout |-> 0, writeAfterEnd |-> FALSE,
   writableLength |-> 0]
ConnectingSocket == [NoSocket EXCEPT !.state = "connecting"]
OpenSocket == [NoSocket EXCEPT !.state = "open"]

NaN == [nan |-> TRUE, val |-> 0]

\* socket.readyState
readyState(s) ==
  IF s.state = "connecting" THEN "opening"
  ELSE LET readable == ~s.destroyed /\ ~s.readableEnded
           writable == ~s.destroyed /\ ~s.writableEnded
       IN  IF readable /\ writable THEN "open"
           ELSE IF readable THEN "readOnly"
           ELSE IF writable THEN "writeOnly"
           ELSE "closed"

\* ------------------------------------------------------- stream operations
\* The streams, the write log, the event queue and the splicer's flag, as one
\* record the handlers' statements update in program order.

IO ==
  [client |-> client, outbound |-> outbound, writes |-> writes,
   pending |-> pending, connectionClosed |-> connectionClosed,
   cleanupRuns |-> cleanupRuns]

Commit(io) ==
  /\ client' = io.client
  /\ outbound' = io.outbound
  /\ writes' = io.writes
  /\ pending' = io.pending
  /\ connectionClosed' = io.connectionClosed
  /\ cleanupRuns' = io.cleanupRuns

Sock(io, side) == IF side = "client" THEN io.client ELSE io.outbound

SetSock(io, side, s) ==
  IF side = "client" THEN [io EXCEPT !.client = s] ELSE [io EXCEPT !.outbound = s]

\* stream.destroy(): the stream is destroyed at once, what its write buffer
\* holds is dropped, its timer is cleared and 'close' is emitted later.
destroy(io, side) ==
  IF Sock(io, side).destroyed THEN io
  ELSE [SetSock(io, side, [Sock(io, side) EXCEPT !.destroyed = TRUE,
                                                 !.writableLength = 0]) EXCEPT
          !.pending = (@ \ {<<side, "timeout">>}) \cup {<<side, "close">>}]

\* stream.destroy(err): as destroy(), with 'error' emitted before 'close'.
destroyWithError(io, side) ==
  IF Sock(io, side).destroyed THEN io
  ELSE [destroy(io, side) EXCEPT !.pending = @ \cup {<<side, "error">>}]

\* socket.setTimeout(ms): the idle timeout of the socket is replaced.
setTimeout(io, side, ms) ==
  SetSock(io, side, [Sock(io, side) EXCEPT !.timeout = ms])

\* socket.write(chunk): a destroyed stream takes nothing; a write after end()
\* is refused with ERR_STREAM_WRITE_AFTER_END, which destroys the stream with
\* that error; otherwise the chunk is queued.
write(io, side, chunk) ==
  IF Sock(io, side).destroyed THEN io
  ELSE IF Sock(io, side).writableEnded
  THEN destroyWithError(
         SetSock(io, side, [Sock(io, side) EXCEPT !.writeAfterEnd = TRUE]), side)
  ELSE [io EXCEPT !.writes = Append(@, [to |-> side, chunk |-> chunk])]

\* The write a pipe makes for a chunk it read: the chunk the destination
\* accepts stays in its write buffer (writableLength counts the piped chunks
\* buffered) until the socket drains.
pipeWrite(io, side, chunk) ==
  LET io1 == write(io, side, chunk)
  IN  IF io1.writes # io.writes
      THEN SetSock(io1, side, [Sock(io1, side) EXCEPT !.writableLength = @ + 1])
      ELSE io1

\* socket.end()
end(io, side) ==
  IF Sock(io, side).destroyed THEN io
  ELSE SetSock(io, side, [Sock(io, side) EXCEPT !.writableEnded = TRUE])

StatusLine(status) == "HTTP/1.1 " \o status \o "\r\n"

sendConnectError(io, status, message) ==
  IF io.client.destroyed THEN io
  ELSE end(write(write(write(write(io,
         "client", StatusLine(status)),
         "client", "Content-Type: text/plain\r\n"),
         "client", "\r\n"),
         "client", message),
         "client")

\* cleanup() without its connectionClosed guard.
cleanup_NoFlag(io) ==
  [destroy(destroy(io, "client"), "outbound") EXCEPT
     !.connectionClosed = TRUE, !.cleanupRuns = @ + 1]

\* cleanup() that forgets the outbound socket.
cleanup_ClientOnly(io) ==
  IF io.connectionClosed THEN io
  ELSE [destroy(io, "client") EXCEPT
          !.connectionClosed = TRUE, !.cleanupRuns = @ + 1]

\* cleanup() of setupSocketErrorHandlers
cleanup(io) ==
  IF io.connectionClosed THEN io
  ELSE [destroy(destroy(io, "client"), "outbound") EXCEPT
          !.connectionClosed = TRUE, !.cleanupRuns = @ + 1]

\* The agent createProxyAgent builds, "undefined" when it builds none.
\* hostname.includes(text)
includesText(s, text) ==
  \E i \in 0..(Len(s) - Len(text)) : SubSeq(s, i + 1, i + Len(text)) = text

Tradingview == <<"t", "r", "a", "d", "i", "n", "g", "v", "i", "e", "w">>

\* timeoutMs of setupSocketErrorHandlers
timeoutMs(h, p) ==
  IF includesText(h, Tradingview) \/ p.val = 443 THEN 60000 ELSE DefaultTimeout

\* The two setTimeout calls that follow the 200 response.
establishedTimeouts(io) ==
  setTimeout(setTimeout(io, "client", EstablishedTimeout), "outbound", EstablishedTimeout)

\* The two setTimeout calls of setupSocketErrorHandlers.
splicerTimeouts(io, h, p) ==
  setTimeout(setTimeout(io, "client", timeoutMs(h, p)), "outbound", timeoutMs(h, p))

createProxyAgent(targetProtocol, isConnectMethod) ==
  IF upstreamProxy = "none" THEN "undefined"
  ELSE IF upstreamProxy \in {"socks5", "socks4"} THEN "SocksProxyAgent"
  ELSE IF upstreamProxy = "http" THEN "HttpProxyAgent"
  ELSE IF upstreamProxy = "https"
       THEN IF isConnectMethod THEN "HttpsProxyAgent"
            ELSE IF targetProtocol = "https" THEN "HttpsProxyAgent"
            ELSE "HttpProxyAgent"
  ELSE "undefined"

\* The direct path's response without its Keep-Alive line.
DirectConnectResponse_NoKeepAlive ==
  << "HTTP/1.1 200 Connection Established\r\n",
     "Proxy-agent: HTTPS-Proxy/1.0\r\n",
     "Connection: keep-alive\r\n",
     "Proxy-Connection: keep-alive\r\n",
     "\r\n" >>

\* The response of the direct path, one element per socket.write.
DirectConnectResponse ==
  << "HTTP/1.1 200 Connection Established\r\n",
     "Proxy-agent: HTTPS-Proxy/1.0\r\n",
     "Connection: keep-alive\r\n",
     "Keep-Alive: timeout=60, max=1000\r\n",
     "Proxy-Connection: keep-alive\r\n",
     "\r\n" >>

\* The response of the upstream path, written by one socket.write.
ProxyConnectResponse ==
  "HTTP/1.1 200 Connection Established\r\n" \o
  "Proxy-agent: HTTPS-Proxy/1.0\r\n" \o
  "Connection: keep-alive\r\n" \o
  "Keep-Alive: timeout=60, max=1000\r\n" \o
  "Proxy-Connection: keep-alive\r\n" \o
  "\r\n"

RECURSIVE writeAll(_, _, _)
writeAll(io, side, chunks) ==
  IF chunks = <<>> THEN io
  ELSE writeAll(write(io, side, Head(chunks)), side, Tail(chunks))

\* The guarded write with its test inverted.
writeIfAny_Inverted(io, side, buf) == IF Len(buf) = 0 THEN write(io, side, buf) ELSE io

\* if (head && head.length > 0) stream.write(head)
writeIfAny(io, side, buf) == IF Len(buf) > 0 THEN write(io, side, buf) ELSE io

\* The writes of the direct path's 'connect' callback: the response, then head.
directConnectWrites(io, h) ==
  writeIfAny(writeAll(io, "client", DirectConnectResponse), "outbound", h)

\* The listener's writes with proxyHead flushed before the response.
proxyConnectWrites_ProxyHeadFirst(io, h, ph) ==
  write(writeIfAny(writeIfAny(io, "client", ph), "outbound", h),
        "client", ProxyConnectResponse)

\* The writes of proxyReq's 'connect' listener: the response, head, proxyHead.
proxyConnectWrites(io, h, ph) ==
  writeIfAny(writeIfAny(write(io, "client", ProxyConnectResponse),
                        "outbound", h),
             "client", ph)

\* ------------------------------------------------------------- the process
\* The listener's connections are kept by slot; a slot records how far its
\* connection got and what the server's own handlers wrote to it.

ConnIds == 1..MaxConns

NoConn == [state |-> "none", via |-> "", out |-> ""]

\* An error object: the phrases its message carries, and its code.
NoError == [message |-> {}, code |-> ""]

\* err.message.includes(phrase)
MessageIncludes(err, phrase) == phrase \in err.message

\* Errors the runtime reports: read ECONNRESET, write EPIPE, ENOTCONN, socket
\* hang up, a client that left during the handshake, a client speaking plain
\* HTTP to the TLS port, a request the HTTP parser refuses, and an error
\* carrying none of the phrases the handlers look for.
Errors ==
  { [message |-> {"ECONNRESET"}, code |-> "ECONNRESET"],
    [message |-> {"EPIPE"}, code |-> "EPIPE"],
    [message |-> {"ENOTCONN"}, code |-> "ENOTCONN"],
    [message |-> {"socket hang up"}, code |-> "ECONNRESET"],
    [message |-> {"Client network socket disconnected",
                  "before secure TLS connection"}, code |-> "ECONNRESET"],
    [message |-> {"SSL routines", "wrong version number"}, code |-> "EPROTO"],
    [message |-> {"Parse Error"}, code |-> "HPE_INVALID_METHOD"],
    [message |-> {}, code |-> "ERR_OTHER"] }

NoLog == [event |-> "", err |-> NoError, entries |-> {}]

\* The entry a handler logs at a level; "none" is no entry.
LogEntry(handler, level) == IF level = "none" THEN {} ELSE {<<handler, level>>}

\* ----------------------------------------------------------------- actions

\* A connection the listener has just accepted, in a process built from one
\* of the environments.
ConnInit ==
  /\ env \in Environments
  /\ upstreamProxy = detectUpstreamProxy(env)
  /\ upstreamProxy \in UpstreamSchemes
  /\ req = NoRequest
  /\ res = NewResponse
  /\ options = NoOptions
  /\ proxyReq = NoProxyReq
  /\ phase = "accepted"
  /\ hostname = <<>>
  /\ targetPort = NaN
  /\ head = ""
  /\ proxyHead = ""
  /\ upstreamStatus = 0
  /\ client = OpenSocket
  /\ outbound = NoSocket
  /\ writes = <<>>
  /\ pending = {}
  /\ connectionClosed = FALSE
  /\ cleanupRuns = 0
  /\ cleanupCalled = FALSE
  /\ timeoutCb = {}
  /\ piped = FALSE
  /\ tickPending = FALSE
  /\ writeCb = FALSE
  /\ timedOut = FALSE
  /\ dials = <<>>
  /\ sent = 0

\* The connection is one of a process that started and listens.
Init ==
  /\ ConnInit
  /\ proc = "running"
  /\ exitCode = -1
  /\ listening = TRUE
  /\ signalHandlers = TRUE
  /\ startup = "ok"
  /\ signal = "none"
  /\ conns = [c \in ConnIds |-> NoConn]
  /\ lastLog = NoLog

\* What handleConnect decides for req.url = u: the status and the text of
\* the error it sends, or "dial" when every check passes.
ConnectVerdict(u, sock) ==
  LET t == ParseTarget(u)
  IN  IF u = <<>> THEN "missing url"
      ELSE IF HostnameMissing(t.hostname) THEN "invalid hostname"
      ELSE IF ~HostnameFormatOk(t.hostname) THEN "bad hostname format"
      ELSE IF ~PortOk(t.port) THEN "invalid port"
      ELSE IF sock.destroyed \/ readyState(sock) # "open" THEN "client state"
      ELSE "dial"

\* handleDirectConnect up to serverSocket.connect: the dial starts, the
\* 'connect' callback and the 'error' listener are registered.
handleDirectConnect(io, h, p) ==
  /\ Commit([io EXCEPT !.outbound = [ConnectingSocket EXCEPT !.timeout = DefaultTimeout]])
  /\ dials' = Append(dials, [via |-> "direct", hostname |-> h, port |-> p.val])
  /\ phase' = "dialing"

\* handleConnectViaProxy up to proxyReq.end().
handleConnectViaProxy(io, h, p) ==
  LET proxyAgent == createProxyAgent("https", TRUE)
  IN  IF proxyAgent = "undefined"
      THEN /\ Commit(sendConnectError(io, "502 Bad Gateway", "no proxy agent"))
           /\ phase' = "failed"
           /\ UNCHANGED dials
      ELSE /\ Commit(io)
           /\ dials' = Append(dials, [via |-> proxyAgent, hostname |-> h, port |-> p.val])
           /\ phase' = "proxyDialing"

\* The server's 'connect' event: handleConnect(req, socket, head).
HandleConnect(u, h) ==
  /\ phase = "accepted"
  /\ head' = h
  /\ LET t == ParseTarget(u)
         verdict == ConnectVerdict(u, client)
     IN  /\ hostname' = IF u = <<>> THEN <<>> ELSE t.hostname
         /\ targetPort' = IF u = <<>> THEN NaN ELSE t.port
         /\ IF verdict = "dial"
            THEN IF upstreamProxy # "none"
                 THEN handleConnectViaProxy(setTimeout(IO, "client", ConnectTimeout),
                                            t.hostname, t.port)
                 ELSE handleDirectConnect(setTimeout(IO, "client", ConnectTimeout),
                                          t.hostname, t.port)
            ELSE /\ Commit(sendConnectError(IO, "400 Bad Request", verdict))
                 /\ phase' = IF verdict = "client state" THEN "aborted" ELSE "rejected"
                 /\ UNCHANGED dials
  /\ UNCHANGED <<env, fetchVars, procVars>>
  /\ UNCHANGED <<cleanupCalled, upstreamProxy, proxyHead, upstreamStatus, timeoutCb,
                 piped, tickPending, writeCb, timedOut, sent>>

\* A connect callback that does not look at the client socket.
DialConnected_NoClientCheck ==
  /\ phase = "dialing"
  /\ outbound.state = "connecting"
  /\ ~outbound.destroyed
  /\ LET io0 == [IO EXCEPT !.outbound = [outbound EXCEPT !.state = "open"]]
     IN  Commit(splicerTimeouts(
                  establishedTimeouts(directConnectWrites(io0, head)),
                  hostname, targetPort))
  /\ phase' = "tunnel"
  /\ timeoutCb' = Sides
  /\ piped' = TRUE
  /\ UNCHANGED <<env, fetchVars, procVars>>
  /\ UNCHANGED <<cleanupCalled, upstreamProxy, hostname, targetPort, head, proxyHead, upstreamStatus,
                 tickPending, writeCb, timedOut, dials, sent>>

\* The callback of serverSocket.connect (direct path).
DialConnected ==
  /\ phase = "dialing"
  /\ outbound.state = "connecting"
  /\ ~outbound.destroyed
  /\ LET io0 == [IO EXCEPT !.outbound = [outbound EXCEPT !.state = "open"]]
     IN  IF client.destroyed
         THEN /\ Commit(destroy(io0, "outbound"))
              /\ phase' = "abandoned"
              /\ UNCHANGED <<timeoutCb, piped>>
         ELSE /\ Commit(splicerTimeouts(
                        establishedTimeouts(directConnectWrites(io0, head)),
                        hostname, targetPort))
              /\ phase' = "tunnel"
              /\ timeoutCb' = Sides
              /\ piped' = TRUE
  /\ UNCHANGED <<env, fetchVars, procVars>>
  /\ UNCHANGED <<cleanupCalled, upstreamProxy, hostname, targetPort, head, proxyHead, upstreamStatus,
                 tickPending, writeCb, timedOut, dials, sent>>

\* proxyReq's 'connect' event (upstream path): the upstream answered the
\* CONNECT with status st and ph are the bytes read past its reply.
ProxyReqConnect(st, ph) ==
  /\ phase = "proxyDialing"
  /\ ~timedOut
  /\ upstreamStatus' = st
  /\ proxyHead' = ph
  /\ LET io0 == [IO EXCEPT !.outbound = OpenSocket]
     IN  IF client.destroyed
         THEN /\ Commit(destroy(io0, "outbound"))
              /\ phase' = "abandoned"
              /\ UNCHANGED <<timeoutCb, tickPending, writeCb>>
         ELSE /\ Commit(splicerTimeouts(
                        proxyConnectWrites(establishedTimeouts(io0), head, ph),
                        hostname, targetPort))
              /\ phase' = "tunnel"
              /\ timeoutCb' = Sides
              /\ tickPending' = TRUE
              /\ writeCb' = TRUE
  /\ UNCHANGED <<env, fetchVars, procVars>>
  /\ UNCHANGED <<cleanupCalled, upstreamProxy, hostname, targetPort, head, piped,
                 timedOut, dials, sent>>

\* The callback of socket.write(response, cb): an error destroys proxySocket.
WriteCallback ==
  /\ writeCb
  /\ writeCb' = FALSE
  /\ Commit(IF client.destroyed THEN destroy(IO, "outbound") ELSE IO)
  /\ UNCHANGED <<env, fetchVars, procVars>>
  /\ UNCHANGED <<cleanupCalled, upstreamProxy, phase, hostname, targetPort, head, proxyHead,
                 upstreamStatus, timeoutCb, piped, tickPending,
                 timedOut, dials, sent>>

\* The process.nextTick callback that installs the two pipes.
NextTick ==
  /\ tickPending
  /\ tickPending' = FALSE
  /\ piped' = ~(client.destroyed \/ outbound.destroyed)
  /\ UNCHANGED <<env, fetchVars, procVars>>
  /\ UNCHANGED <<cleanupCalled, upstreamProxy, phase, hostname, targetPort, head, proxyHead,
                 upstreamStatus, client, outbound, writes, pending, connectionClosed,
                 cleanupRuns, timeoutCb, writeCb, timedOut, dials, sent>>

\* proxyReq's 'error' event.
ProxyReqError ==
  /\ phase = "proxyDialing"
  /\ Commit(sendConnectError(IO, "502 Bad Gateway", "proxy connection failed"))
  /\ phase' = "failed"
  /\ UNCHANGED <<env, fetchVars, procVars>>
  /\ UNCHANGED <<cleanupCalled, upstreamProxy, hostname, targetPort, head, proxyHead, upstreamStatus,
                 timeoutCb, piped, tickPending, writeCb, timedOut,
                 dials, sent>>

\* proxyReq's 'timeout' event: the request is destroyed, which makes it emit
\* 'error' later, and 504 is sent.
ProxyReqTimeout ==
  /\ phase = "proxyDialing"
  /\ ~timedOut
  /\ timedOut' = TRUE
  /\ Commit(sendConnectError(IO, "504 Gateway Timeout", "proxy connection timed out"))
  /\ UNCHANGED <<env, fetchVars, procVars>>
  /\ UNCHANGED <<cleanupCalled, upstreamProxy, phase, hostname, targetPort, head, proxyHead,
                 upstreamStatus, timeoutCb, piped, tickPending, writeCb,
                 dials, sent>>

\* A socket fails (reset by the peer, connection refused): the runtime destroys
\* it and emits 'error', then 'close'.
EnvFail(side) ==
  /\ Sock(IO, side).state # "none"
  /\ ~Sock(IO, side).destroyed
  /\ Commit(destroyWithError(IO, side))
  /\ UNCHANGED <<env, fetchVars, procVars>>
  /\ UNCHANGED <<cleanupCalled, upstreamProxy, phase, hostname, targetPort, head, proxyHead,
                 upstreamStatus, timeoutCb, piped, tickPending, writeCb,
                 timedOut, dials, sent>>

\* The peer of a flowing socket sends EOF: 'end' is emitted.  The client
\* socket is read from the moment it is accepted, so its peer may half-close
\* before the 'connect' event is handled.
EnvEof(side) ==
  /\ \/ phase = "tunnel" /\ piped
     \/ phase = "accepted" /\ side = "client"
  /\ ~Sock(IO, side).destroyed
  /\ ~Sock(IO, side).readableEnded
  /\ Commit([SetSock(IO, side, [Sock(IO, side) EXCEPT !.readableEnded = TRUE]) EXCEPT
               !.pending = @ \cup {<<side, "end">>}])
  /\ UNCHANGED <<env, fetchVars, procVars>>
  /\ UNCHANGED <<cleanupCalled, upstreamProxy, phase, hostname, targetPort, head, proxyHead,
                 upstreamStatus, timeoutCb, piped, tickPending, writeCb,
                 timedOut, dials, sent>>

\* A socket's idle timer expires: 'timeout' is emitted.  (With no listener
\* registered the event does nothing; the dial's first timeout is kept.)
EnvIdle(side) ==
  /\ \/ phase = "tunnel" /\ side \in timeoutCb
     \/ phase = "dialing" /\ side = "outbound" /\ ~timedOut
  /\ Sock(IO, side).state # "none"
  /\ ~Sock(IO, side).destroyed
  /\ <<side, "timeout">> \notin pending
  /\ pending' = pending \cup {<<side, "timeout">>}
  /\ UNCHANGED <<env, fetchVars, procVars>>
  /\ UNCHANGED <<cleanupCalled, upstreamProxy, phase, hostname, targetPort, head, proxyHead,
                 upstreamStatus, client, outbound, writes, connectionClosed,
                 cleanupRuns, timeoutCb, piped, tickPending, writeCb,
                 timedOut, dials, sent>>

Peer(side) == IF side = "client" THEN "outbound" ELSE "client"

Payload(side) == IF side = "client" THEN "<client data>" ELSE "<outbound data>"

\* A pipe copies one chunk read from side to its peer.
EnvData(side) ==
  /\ phase = "tunnel"
  /\ piped
  /\ sent < MaxData
  /\ ~Sock(IO, side).destroyed
  /\ ~Sock(IO, side).readableEnded
  /\ ~Sock(IO, Peer(side)).destroyed
  /\ Commit(pipeWrite(IO, Peer(side), Payload(side)))
  /\ sent' = sent + 1
  /\ UNCHANGED <<env, fetchVars, procVars>>
  /\ UNCHANGED <<cleanupCalled, upstreamProxy, phase, hostname, targetPort, head, proxyHead,
                 upstreamStatus, timeoutCb, piped, tickPending, writeCb,
                 timedOut, dials>>

\* A socket hands its buffered chunks to the kernel: its write buffer is empty.
Drain(side) ==
  /\ ~Sock(IO, side).destroyed
  /\ Sock(IO, side).writableLength > 0
  /\ Commit(SetSock(IO, side, [Sock(IO, side) EXCEPT !.writableLength = 0]))
  /\ UNCHANGED <<env, fetchVars, procVars>>
  /\ UNCHANGED <<cleanupCalled, upstreamProxy, phase, hostname, targetPort, head, proxyHead,
                 upstreamStatus, timeoutCb, piped, tickPending, writeCb,
                 timedOut, dials, sent>>

\* A serverSocket without the 'error' listener.
directErrorListener_Missing(io, side, ev) == io

\* The 'error' listener handleDirectConnect registers on serverSocket.
directErrorListener(io, side, ev) ==
  IF upstreamProxy = "none" /\ side = "outbound" /\ ev = "error"
  THEN sendConnectError(io, "502 Bad Gateway", "connection to target failed")
  ELSE io

\* Whether a listener of setupSocketErrorHandlers is registered for the event.
splicerListens(side, ev) ==
  phase = "tunnel" /\ (ev = "timeout" => side \in timeoutCb)

\* The runtime delivers a queued socket event to its listeners, in the order
\* they were registered.
Deliver(side, ev) ==
  /\ <<side, ev>> \in pending
  /\ ev = "close" => <<side, "error">> \notin pending
  /\ LET io0 == [IO EXCEPT !.pending = @ \ {<<side, ev>>}]
         io1 == directErrorListener(io0, side, ev)
         io2 == IF splicerListens(side, ev) THEN cleanup(io1) ELSE io1
     IN  Commit(io2)
  /\ cleanupCalled' = (cleanupCalled \/ splicerListens(side, ev))
  /\ timeoutCb' = IF ev = "timeout" THEN timeoutCb \ {side} ELSE timeoutCb
  /\ phase' = IF phase = "dialing" /\ side = "outbound" /\ ev = "error"
              THEN "failed" ELSE phase
  /\ timedOut' = (timedOut \/ (phase = "dialing" /\ side = "outbound" /\ ev = "timeout"))
  /\ UNCHANGED <<env, fetchVars, procVars>>
  /\ UNCHANGED <<upstreamProxy, hostname, targetPort, head, proxyHead, upstreamStatus,
                 piped, tickPending, writeCb, dials, sent>>

\* ------------------------------------------------- forward-fetch actions

\* res.writeHead(status, {'Content-Type': type}); res.end(body)
respond(r, status, type, body) ==
  [r EXCEPT !.statusCode = status, !.contentType = type, !.body = body,
            !.headersSent = TRUE, !.finished = TRUE, !.writeHeadCalls = @ + 1]

\* handleHttpRequest up to httpModule.request: the response it sends by
\* itself, or the options of the outbound request (NoOptions when it makes
\* none).
handleHttpRequest(r) ==
  LET parsedUrl == ParseURL(r.url)
      isHttps == parsedUrl.protocol = "https:"
      proxyAgent == createProxyAgent(IF isHttps THEN "https" ELSE "http", FALSE)
      plain == "text/plain; charset=utf-8"
      reply(status, type, body) ==
        [res |-> respond(NewResponse, status, type, body), options |-> NoOptions]
  IN  IF r.url = <<>> THEN reply(400, plain, "missing url")
      ELSE IF r.method \notin validMethods THEN reply(405, plain, "method not supported")
      ELSE IF ~startsWith(r.url, HttpPrefix) /\ ~startsWith(r.url, HttpsPrefix)
      THEN IF HostHeaderSuspicious(r.headers)
           THEN reply(400, plain, "Bad Request - use CONNECT")
           ELSE reply(200, "text/html; charset=utf-8", "status page")
      ELSE IF ~parsedUrl.ok THEN reply(400, plain, "invalid url")
      ELSE IF parsedUrl.protocol \notin {"http:", "https:"}
      THEN reply(400, plain, "unsupported protocol")
      ELSE [res |-> NewResponse,
            options |->
              [hostname |-> parsedUrl.hostname,
               port |-> IF parsedUrl.port # <<>> THEN parsedUrl.port
                        ELSE ToDigits(DefaultPort(parsedUrl.protocol)),
               path |-> parsedUrl.path,
               method |-> r.method,
               headers |-> OutboundHeaders(r.headers, parsedUrl),
               agent |-> IF proxyAgent # "undefined" THEN proxyAgent
                         ELSE IF isHttps THEN "https.Agent" ELSE "globalAgent"]]

\* The server's 'request' listener, called with a request parsed from a live
\* connection: OPTIONS is answered at once, every other request goes to
\* handleHttpRequest.
RequestListener(r) ==
  /\ phase = "accepted"
  /\ ~client.destroyed
  /\ phase' = "request"
  /\ req' = r
  /\ IF r.method = "OPTIONS"
     THEN /\ res' = [NewResponse EXCEPT !.statusCode = 200, !.headersSent = TRUE,
                                        !.finished = TRUE, !.writeHeadCalls = 1]
          /\ options' = NoOptions
          /\ proxyReq' = NoProxyReq
     ELSE LET out == handleHttpRequest(r)
          IN  /\ res' = out.res
              /\ options' = out.options
              /\ proxyReq' = IF out.options # NoOptions
                             THEN [NoProxyReq EXCEPT !.state = "sent"]
                             ELSE NoProxyReq
  /\ UNCHANGED <<procVars, env, upstreamProxy, tunnelVars>>

\* The callback of httpModule.request: the origin's response head arrived.
FetchResponse(st) ==
  /\ proxyReq.state = "sent"
  /\ ~proxyReq.destroyed
  /\ proxyReq' = [proxyReq EXCEPT !.state = "responding"]
  /\ res' = [res EXCEPT !.statusCode = st, !.body = "origin body",
                        !.headersSent = TRUE, !.writeHeadCalls = @ + 1]
  /\ UNCHANGED <<procVars, env, upstreamProxy, phase, tunnelVars, req, options>>

\* proxyRes ends: the pipe ends res.
FetchEnd ==
  /\ proxyReq.state = "responding"
  /\ ~proxyReq.destroyed
  /\ proxyReq' = [proxyReq EXCEPT !.state = "complete"]
  /\ res' = [res EXCEPT !.finished = TRUE]
  /\ UNCHANGED <<procVars, env, upstreamProxy, phase, tunnelVars, req, options>>

\* The outbound connection fails (refused, reset): the request is destroyed
\* and will emit 'error'.
FetchFail(err) ==
  /\ proxyReq.state \in {"sent", "responding"}
  /\ ~proxyReq.destroyed
  /\ proxyReq' = [proxyReq EXCEPT !.destroyed = TRUE, !.errorPending = TRUE,
                                  !.error = err]
  /\ UNCHANGED <<procVars, env, upstreamProxy, phase, tunnelVars, req, res, options>>

\* An 'error' listener that only logs.
FetchError_Silent ==
  /\ proxyReq.errorPending
  /\ proxyReq' = [proxyReq EXCEPT !.errorPending = FALSE]
  /\ UNCHANGED <<procVars, env, upstreamProxy, phase, tunnelVars, req, res, options>>

\* The 'error' listener of the outbound request.
FetchError ==
  /\ proxyReq.errorPending
  /\ proxyReq' = [proxyReq EXCEPT !.errorPending = FALSE]
  /\ res' = IF ~res.headersSent
            THEN respond(res, 502, "text/plain; charset=utf-8",
                         "proxy error: " \o proxyReq.error)
            ELSE res
  /\ UNCHANGED <<procVars, env, upstreamProxy, phase, tunnelVars, req, options>>

\* The callback of proxyReq.setTimeout: the request is destroyed, which makes
\* it emit 'error' when no response has arrived, and 504 is sent if no head
\* was.
FetchTimeout ==
  /\ proxyReq.state \in {"sent", "responding"}
  /\ ~proxyReq.destroyed
  /\ ~proxyReq.timedOut
  /\ proxyReq' = [proxyReq EXCEPT !.timedOut = TRUE, !.destroyed = TRUE,
                                  !.errorPending = (proxyReq.state = "sent"),
                                  !.error = "socket hang up"]
  /\ res' = IF ~res.headersSent
            THEN respond(res, 504, "text/plain; charset=utf-8", "request timed out")
            ELSE res
  /\ UNCHANGED <<procVars, env, upstreamProxy, phase, tunnelVars, req, options>>

\* ------------------------------------------------------ process actions

\* Main without its process-level handlers.
ProcessHandlers_None == {}

\* The events main installs a process-level handler for before it builds the
\* proxy.
ProcessHandlers == {"uncaughtException", "unhandledRejection"}

\* The main block, to the end of the module's top level.  The constructor
\* reads the TLS key and certificate and throws when a file cannot be read:
\* the throw leaves the top level, the 'uncaughtException' handler logs it,
\* start() is never called, no signal handler is installed, and with nothing
\* left to wait for the process ends with code 0.
Main(readable) ==
  /\ proc = "loading"
  /\ IF readable
     THEN /\ proc' = "starting"
          /\ signalHandlers' = TRUE
          /\ UNCHANGED <<exitCode, startup, lastLog>>
     ELSE /\ proc' = "exited"
          /\ exitCode' = 0
          /\ startup' = "tlsMissing"
          /\ lastLog' = [event |-> "uncaughtException", err |-> NoError,
                         entries |-> {<<"uncaughtException", "error">>}]
          /\ UNCHANGED signalHandlers
  /\ UNCHANGED <<listening, signal, conns>>
  /\ UNCHANGED <<env, upstreamProxy, phase, tunnelVars, fetchVars>>

\* The server's 'error' listener: what it does with the promise of start().
serverErrorListener(isListening) == IF ~isListening THEN "reject" ELSE "continue"

\* start() settles.  "ok": the listen callback resolves the promise.
\* "bind": the server emits 'error' before it listens, the listener rejects
\* the promise.  "tlsInvalid": https.createServer refuses the key or the
\* certificate and its throw rejects the promise.  A rejection reaches the
\* catch of main, which exits with code 1.
StartSettles(outcome) ==
  /\ proc = "starting"
  /\ startup = "pending"
  /\ startup' = outcome
  /\ LET rejected == \/ outcome = "tlsInvalid"
                     \/ outcome = "bind" /\ serverErrorListener(listening) = "reject"
     IN  IF outcome = "ok"
         THEN /\ proc' = "running"
              /\ listening' = TRUE
              /\ UNCHANGED <<exitCode, lastLog>>
         ELSE /\ proc' = IF rejected THEN "exited" ELSE "running"
              /\ exitCode' = IF rejected THEN 1 ELSE exitCode
              /\ lastLog' = [event |-> "start", err |-> NoError,
                             entries |-> {<<"start", "error">>}]
              /\ UNCHANGED listening
  /\ UNCHANGED <<signalHandlers, signal, conns>>
  /\ UNCHANGED <<env, upstreamProxy, phase, tunnelVars, fetchVars>>

\* A fault while the service runs: an exception nothing caught, a rejection
\* nothing handled, or an 'error' event of the listening server.  A handler
\* logs it; without one the runtime ends the process with code 1.
Fault(kind) ==
  /\ proc = "running"
  /\ LET handled == \/ kind \in ProcessHandlers
                    \/ kind = "serverError"
     IN  /\ proc' = IF handled THEN proc ELSE "exited"
         /\ exitCode' = IF handled THEN exitCode ELSE 1
  /\ lastLog' = [event |-> kind, err |-> NoError, entries |-> {<<kind, "error">>}]
  /\ UNCHANGED <<listening, signalHandlers, startup, signal, conns>>
  /\ UNCHANGED <<env, upstreamProxy, phase, tunnelVars, fetchVars>>

Signals == {"SIGINT", "SIGTERM"}

\* The SIGINT and SIGTERM handlers: a log line, then process.exit(0).  The
\* listener and the connections are left as they are when the process ends.
Signal(sig) ==
  /\ proc \in {"starting", "running"}
  /\ signalHandlers
  /\ signal' = sig
  /\ proc' = "exited"
  /\ exitCode' = 0
  /\ lastLog' = [event |-> sig, err |-> NoError, entries |-> {<<sig, "log">>}]
  /\ UNCHANGED <<listening, signalHandlers, startup, conns>>
  /\ UNCHANGED <<env, upstreamProxy, phase, tunnelVars, fetchVars>>

\* The listener accepts a connection; its TLS handshake begins.
Accept(c) ==
  /\ proc = "running"
  /\ listening
  /\ conns[c].state = "none"
  /\ conns' = [conns EXCEPT ![c].state = "handshaking"]
  /\ UNCHANGED <<proc, exitCode, listening, signalHandlers, startup, signal, lastLog>>
  /\ UNCHANGED <<env, upstreamProxy, phase, tunnelVars, fetchVars>>

\* The handshake of a connection completes: the HTTP parser reads from it.
Secure(c) ==
  /\ proc = "running"
  /\ conns[c].state = "handshaking"
  /\ conns' = [conns EXCEPT ![c].state = "open"]
  /\ UNCHANGED <<proc, exitCode, listening, signalHandlers, startup, signal, lastLog>>
  /\ UNCHANGED <<env, upstreamProxy, phase, tunnelVars, fetchVars>>

\* A CONNECT request of the connection is answered 200 and spliced, on the
\* path the upstream setting selects.
Spliced(c) ==
  /\ proc = "running"
  /\ conns[c].state = "open"
  /\ upstreamProxy \in {"none", "http", "https"}
  /\ conns' = [conns EXCEPT ![c].state = "tunnel",
                            ![c].via = IF upstreamProxy = "none" THEN "direct"
                                       ELSE "upstream"]
  /\ UNCHANGED <<proc, exitCode, listening, signalHandlers, startup, signal, lastLog>>
  /\ UNCHANGED <<env, upstreamProxy, phase, tunnelVars, fetchVars>>

\* Whether err is a protocol-version error for the two server-level handlers.
IsProtocolError(err) ==
  err.code = "EPROTO" \/ MessageIncludes(err, "wrong version number")

\* The level at which the 'clientError' handler logs err.
clientErrorLevel(err) ==
  LET isCommonError ==
        \/ MessageIncludes(err, "ECONNRESET")
        \/ MessageIncludes(err, "Parse Error")
        \/ MessageIncludes(err, "HPE_INVALID_METHOD")
        \/ MessageIncludes(err, "socket hang up")
        \/ MessageIncludes(err, "wrong version number")
        \/ MessageIncludes(err, "SSL_ERROR_WANT_READ")
        \/ MessageIncludes(err, "SSL_ERROR_WANT_WRITE")
        \/ err.code = "EPROTO"
  IN  IF IsProtocolError(err) THEN "log"
      ELSE IF ~isCommonError THEN "error"
      ELSE "log"

BadRequestReply == "HTTP/1.1 400 Bad Request\r\n\r\n"

\* What the 'clientError' handler does to the socket.
clientErrorSocket(conn, err) ==
  IF conn.state # "destroyed"
  THEN IF IsProtocolError(err)
       THEN conn
       ELSE [conn EXCEPT !.state = "ended", !.out = BadRequestReply]
  ELSE conn

\* A handler that closes the socket for the protocol errors only.
tlsClientErrorSocket_ProtocolOnly(conn, err) ==
  IF conn.state # "destroyed" /\ IsProtocolError(err)
  THEN [conn EXCEPT !.state = "destroyed"]
  ELSE conn

\* The level at which the 'tlsClientError' handler logs err.
tlsClientErrorLevel(err) ==
  LET isCommonSSLError ==
        \/ MessageIncludes(err, "Client network socket disconnected")
        \/ MessageIncludes(err, "before secure TLS connection")
        \/ MessageIncludes(err, "ECONNRESET")
        \/ MessageIncludes(err, "PROTOCOL_WRONG_VERSION")
        \/ MessageIncludes(err, "SSL routines")
        \/ MessageIncludes(err, "socket hang up")
        \/ MessageIncludes(err, "wrong version number")
        \/ MessageIncludes(err, "SSL_ERROR_WANT_READ")
        \/ MessageIncludes(err, "SSL_ERROR_WANT_WRITE")
        \/ MessageIncludes(err, "TLSV1_ALERT_PROTOCOL_VERSION")
        \/ err.code = "EPROTO"
  IN  IF IsProtocolError(err) THEN "log"
      ELSE IF MessageIncludes(err, "TLSV1_ALERT_PROTOCOL_VERSION") THEN "log"
      ELSE IF ~isCommonSSLError THEN "error"
      ELSE "log"

\* What the 'tlsClientError' handler does to the socket.
tlsClientErrorSocket(conn, err) ==
  IF conn.state # "destroyed"
  THEN IF IsProtocolError(err)
       THEN [conn EXCEPT !.state = "destroyed"]
       ELSE [conn EXCEPT !.state = "ended"]
  ELSE conn

\* The server's 'clientError' event for a connection the parser reads from.
\* The runtime has destroyed the socket already when the error is the
\* socket's own (destroyed), not when the parser refuses the bytes.
ClientError(c, err, destroyed) ==
  /\ proc = "running"
  /\ conns[c].state = "open"
  /\ LET conn == IF destroyed THEN [conns[c] EXCEPT !.state = "destroyed"]
                 ELSE conns[c]
     IN  conns' = [conns EXCEPT ![c] = clientErrorSocket(conn, err)]
  /\ lastLog' = [event |-> "clientError", err |-> err,
                 entries |-> LogEntry("clientError", clientErrorLevel(err))]
  /\ UNCHANGED <<proc, exitCode, listening, signalHandlers, startup, signal>>
  /\ UNCHANGED <<env, upstreamProxy, phase, tunnelVars, fetchVars>>

\* The server's 'tlsClientError' event: the handshake of a connection failed.
TlsClientError(c, err, destroyed) ==
  /\ proc = "running"
  /\ conns[c].state = "handshaking"
  /\ LET conn == IF destroyed THEN [conns[c] EXCEPT !.state = "destroyed"]
                 ELSE conns[c]
     IN  conns' = [conns EXCEPT ![c] = tlsClientErrorSocket(conn, err)]
  /\ lastLog' = [event |-> "tlsClientError", err |-> err,
                 entries |-> LogEntry("tlsClientError", tlsClientErrorLevel(err))]
  /\ UNCHANGED <<proc, exitCode, listening, signalHandlers, startup, signal>>
  /\ UNCHANGED <<env, upstreamProxy, phase, tunnelVars, fetchVars>>

\* The level at which the 'error' listener of a pipe's destination logs err.
pipeErrorLevel(via, err) ==
  IF /\ ~MessageIncludes(err, "ECONNRESET")
     /\ ~MessageIncludes(err, "EPIPE")
     /\ ~MessageIncludes(err, "ENOTCONN")
     /\ ~MessageIncludes(err, "Client network socket disconnected")
     /\ (via = "upstream" => ~MessageIncludes(err, "before secure TLS connection"))
  THEN "error"
  ELSE "none"

\* The level at which the splicer's 'error' listener of a side logs err.
splicerErrorLevel(side, err) ==
  IF side = "client"
  THEN LET isCommonError ==
             \/ MessageIncludes(err, "ECONNRESET")
             \/ MessageIncludes(err, "EPIPE")
             \/ MessageIncludes(err, "ENOTCONN")
             \/ MessageIncludes(err, "Client network socket disconnected")
             \/ MessageIncludes(err, "before secure TLS connection")
             \/ MessageIncludes(err, "socket hang up")
             \/ MessageIncludes(err, "PROTOCOL_WRONG_VERSION")
             \/ MessageIncludes(err, "SSL routines")
             \/ MessageIncludes(err, "ETIMEDOUT")
       IN  IF ~isCommonError THEN "error" ELSE "log"
  ELSE LET isCommonError ==
             \/ MessageIncludes(err, "ECONNRESET")
             \/ MessageIncludes(err, "EPIPE")
             \/ MessageIncludes(err, "ENOTCONN")
             \/ MessageIncludes(err, "socket hang up")
       IN  IF ~isCommonError THEN "error" ELSE "none"

\* A socket of a spliced connection emits 'error': its listeners log, in the
\* order they were registered (the dial's own listener on a direct path's
\* outbound socket, the splicer's, the pipe's), and cleanup() destroys both
\* sockets.
TunnelSocketError(c, side, err) ==
  /\ proc = "running"
  /\ conns[c].state = "tunnel"
  /\ conns' = [conns EXCEPT ![c].state = "destroyed"]
  /\ lastLog' =
       [event |-> "socketError", err |-> err,
        entries |->
          (IF conns[c].via = "direct" /\ side = "outbound"
           THEN {<<"directError", "error">>} ELSE {})
          \cup LogEntry("splicer", splicerErrorLevel(side, err))
          \cup LogEntry("pipe", pipeErrorLevel(conns[c].via, err))]
  /\ UNCHANGED <<proc, exitCode, listening, signalHandlers, startup, signal>>
  /\ UNCHANGED <<env, upstreamProxy, phase, tunnelVars, fetchVars>>

Next ==
  \/ \E u \in Urls, h \in Heads : HandleConnect(u, h)
  \/ DialConnected
  \/ \E r \in UpstreamReplies : ProxyReqConnect(r.status, r.proxyHead)
  \/ WriteCallback
  \/ NextTick
  \/ ProxyReqError
  \/ ProxyReqTimeout
  \/ \E side \in Sides : EnvFail(side)
  \/ \E side \in Sides : EnvEof(side)
  \/ \E side \in Sides : EnvIdle(side)
  \/ \E side \in Sides : EnvData(side)
  \/ \E side \in Sides : Drain(side)
  \/ \E side \in Sides, ev \in Events : Deliver(side, ev)
  \/ \E r \in Requests : RequestListener(r)
  \/ \E st \in OriginStatuses : FetchResponse(st)
  \/ FetchEnd
  \/ \E err \in FetchErrors : FetchFail(err)
  \/ FetchError
  \/ FetchTimeout

Spec == Init /\ [][Next]_vars

\* The event loop delivers every queued event and runs every queued callback.
FairSpec ==
  /\ Spec
  /\ WF_vars(\E side \in Sides, ev \in Events : Deliver(side, ev))
  /\ WF_vars(NextTick)
  /\ WF_vars(WriteCallback)
  /\ WF_vars(FetchError)

\* The process from the start of its main block.
ProcInit ==
  /\ ConnInit
  /\ proc = "loading"
  /\ exitCode = -1
  /\ listening = FALSE
  /\ signalHandlers = FALSE
  /\ startup = "pending"
  /\ signal = "none"
  /\ conns = [c \in ConnIds |-> NoConn]
  /\ lastLog = NoLog

FaultKinds == {"uncaughtException", "unhandledRejection", "serverError"}

StartOutcomes == {"ok", "bind", "tlsInvalid"}

ProcNext ==
  \/ \E readable \in BOOLEAN : Main(readable)
  \/ \E outcome \in StartOutcomes : StartSettles(outcome)
  \/ \E kind \in FaultKinds : Fault(kind)
  \/ \E sig \in Signals : Signal(sig)
  \/ \E c \in ConnIds : Accept(c)
  \/ \E c \in ConnIds : Secure(c)
  \/ \E c \in ConnIds : Spliced(c)
  \/ \E c \in ConnIds, err \in Errors, d \in BOOLEAN : ClientError(c, err, d)
  \/ \E c \in ConnIds, err \in Errors, d \in BOOLEAN : TlsClientError(c, err, d)
  \/ \E c \in ConnIds, side \in Sides, err \in Errors : TunnelSocketError(c, side, err)

ProcSpec == ProcInit /\ [][ProcNext]_vars

\* ------------------------------------------------------------ observations

\* The chunks a stream was handed, in order.
ChunksTo(side) ==
  LET w == SelectSeq(writes, LAMBDA r : r.to = side)
  IN  [i \in 1..Len(w) |-> w[i].chunk]

ClientChunks == ChunksTo("client")

RECURSIVE Flatten(_)
Flatten(chunks) ==
  IF chunks = <<>> THEN "" ELSE Head(chunks) \o Flatten(Tail(chunks))

\* A complete error response with the given status line: status line,
\* content type, blank line, body.
IsErrorResponse(chunks, statusLine) ==
  /\ Len(chunks) = 4
  /\ chunks[1] = statusLine
  /\ chunks[2] = "Content-Type: text/plain\r\n"
  /\ chunks[3] = "\r\n"

\* A target authority as the data model defines it.
ValidAuthority(h, p) ==
  /\ h # <<>>
  /\ \A i \in 1..Len(h) : h[i] \in HostnameChars
  /\ Len(h) <= 253
  /\ ~p.nan
  /\ p.val >= 1
  /\ p.val <= 65535

\* ------------------------------------------------------------------ claims

\* C1: an outbound connection is started only to the hostname and port that
\* passed validation; a request that fails validation is rejected, its
\* client stream gets exactly the 400 response and is ended (or was already
\* destroyed and gets nothing), and nothing is ever dialed for it.
C1_NoDialBeforeValidation ==
  /\ \A i \in 1..Len(dials) :
       /\ ValidAuthority(dials[i].hostname, [nan |-> FALSE, val |-> dials[i].port])
       /\ dials[i].hostname = hostname
       /\ dials[i].port = targetPort.val
  /\ (phase \notin {"accepted", "request"} /\ ~ValidAuthority(hostname, targetPort))
       => phase = "rejected"
  /\ phase = "rejected" =>
       /\ dials = <<>>
       /\ outbound.state = "none"
       /\ \/ IsErrorResponse(ClientChunks, "HTTP/1.1 400 Bad Request\r\n")
             /\ client.writableEnded
          \/ ClientChunks = <<>> /\ client.destroyed

\* A hostname one character too long was rejected with the 400 response.
C1_Witness ==
  /\ phase = "rejected"
  /\ Len(hostname) = 254
  /\ Len(ClientChunks) = 4
  /\ client.writableEnded

\* C2: the body of cleanup has run exactly once as soon as any listener of
\* the splicer was called, however many events were delivered, and not at
\* all before.
C2_CleanupOnce ==
  /\ cleanupRuns = (IF cleanupCalled THEN 1 ELSE 0)
  /\ connectionClosed = cleanupCalled

\* Both sockets' 'close' events (two calls of cleanup at least) were
\* delivered to the splicer and the body ran once.
C2_Witness ==
  /\ phase = "tunnel"
  /\ cleanupRuns = 1
  /\ client.destroyed /\ outbound.destroyed
  /\ pending = {}

\* A tunnel one of whose sockets has errored, closed, reached EOF or timed out.
TunnelEnding ==
  /\ phase = "tunnel"
  /\ \/ client.destroyed \/ outbound.destroyed
     \/ client.readableEnded \/ outbound.readableEnded
     \/ \E side \in Sides : <<side, "timeout">> \in pending

\* C3: once a socket of a tunnel has errored, closed, reached EOF or timed
\* out, both sockets of the tunnel are eventually destroyed.
C3_BothSocketsClosed == TunnelEnding ~> (client.destroyed /\ outbound.destroyed)

\* The outbound side sent EOF and cleanup destroyed both sockets.
C3_Witness ==
  /\ phase = "tunnel"
  /\ outbound.readableEnded
  /\ client.destroyed /\ outbound.destroyed

\* A chunk that opens a 200 response (the whole block or its status line).
Is200(chunk) ==
  chunk \in {ProxyConnectResponse, "HTTP/1.1 200 Connection Established\r\n"}

\* A chunk of an error response written by sendConnectError.
IsErrorChunk(chunk) ==
  chunk \in {"HTTP/1.1 400 Bad Request\r\n", "HTTP/1.1 502 Bad Gateway\r\n",
             "HTTP/1.1 504 Gateway Timeout\r\n", "Content-Type: text/plain\r\n"}

\* C4: through an http or https upstream the client is sent the 200 only
\* if the upstream answered the CONNECT with a 2xx status.
C4_Only2xxEstablishes ==
  (upstreamProxy \in {"http", "https"} /\ \E i \in 1..Len(ClientChunks) : Is200(ClientChunks[i]))
    => (upstreamStatus >= 200 /\ upstreamStatus <= 299)

\* C5: once the 200 has been written to the client, no chunk of an error
\* response is written to the client.
C5_NoErrorResponseAfter200 ==
  \A i \in 1..Len(ClientChunks) : \A j \in 1..Len(ClientChunks) :
    (i < j /\ Is200(ClientChunks[i])) => ~IsErrorChunk(ClientChunks[j])

\* C6: when the dial has timed out and nothing had been sent to a live
\* client, the client has received 504 Gateway Timeout.
C6_TimeoutGives504 ==
  timedOut =>
    \/ ClientChunks # <<>> /\ ClientChunks[1] = "HTTP/1.1 504 Gateway Timeout\r\n"
    \/ ClientChunks = <<>> /\ client.destroyed

\* C7: when the dial has failed (no agent, connection refused, upstream
\* unreachable) the client stream holds exactly the 502 response and is
\* ended, unless it was already destroyed and got nothing.
C7_DialFailureGives502 ==
  (phase = "failed" /\ ~(upstreamProxy # "none" /\ timedOut)) =>
    \/ IsErrorResponse(ClientChunks, "HTTP/1.1 502 Bad Gateway\r\n")
       /\ client.writableEnded
    \/ ClientChunks = <<>> /\ client.destroyed

\* A refused direct dial was answered with the 502 response.
C7_Witness ==
  /\ phase = "failed"
  /\ upstreamProxy = "none"
  /\ Len(ClientChunks) = 4
  /\ outbound.destroyed

\* C8: with a non-empty head, every payload chunk of the outbound side
\* written to the client (proxyHead, spliced data) and every spliced client
\* chunk written to the outbound stream comes after the write of head to
\* the outbound stream.
C8_HeadFirst ==
  head # "" =>
    \A i \in 1..Len(writes) :
      ( \/ writes[i].to = "client" /\ writes[i].chunk \in {"<proxyHead>", "<outbound data>"}
        \/ writes[i].to = "outbound" /\ writes[i].chunk = "<client data>" )
      => \E j \in 1..(i-1) : writes[j] = [to |-> "outbound", chunk |-> head]

\* Head was forwarded and then a chunk of the outbound side reached the client.
C8_Witness ==
  /\ head # ""
  /\ \E i \in 1..Len(writes) : writes[i] = [to |-> "client", chunk |-> "<outbound data>"]
  /\ \E i \in 1..Len(writes) : writes[i] = [to |-> "outbound", chunk |-> head]

\* C9: on the upstream path the client stream holds the complete 200
\* response, then proxyHead if there is any, then only spliced chunks of the
\* outbound side.
C9_ProxyPathOrder ==
  (upstreamProxy # "none" /\ phase = "tunnel") =>
    LET c == ClientChunks
        k == IF proxyHead # "" THEN 2 ELSE 1
    IN  /\ Len(c) >= k
        /\ c[1] = "HTTP/1.1 200 Connection Established\r\nProxy-agent: HTTPS-Proxy/1.0\r\nConnection: keep-alive\r\nKeep-Alive: timeout=60, max=1000\r\nProxy-Connection: keep-alive\r\n\r\n"
        /\ proxyHead # "" => c[2] = proxyHead
        /\ \A i \in (k+1)..Len(c) : c[i] = "<outbound data>"

\* The client got the response, proxyHead and a spliced chunk.
C9_Witness ==
  /\ upstreamProxy # "none"
  /\ phase = "tunnel"
  /\ proxyHead # ""
  /\ Len(ClientChunks) = 3

\* C10: in an established tunnel the client stream starts with the bytes
\* of the success response, written by six writes on the direct path and
\* by one on the upstream path, and no second 200 follows; no 200 is
\* written unless a tunnel is established.
C10_SuccessResponseBytes ==
  LET c == ClientChunks
      k == IF upstreamProxy = "none" THEN 6 ELSE 1
  IN  /\ phase = "tunnel" =>
           /\ Len(c) >= k
           /\ Flatten(SubSeq(c, 1, k)) = "HTTP/1.1 200 Connection Established\r\nProxy-agent: HTTPS-Proxy/1.0\r\nConnection: keep-alive\r\nKeep-Alive: timeout=60, max=1000\r\nProxy-Connection: keep-alive\r\n\r\n"
           /\ \A i \in 2..Len(c) : ~Is200(c[i])
      /\ phase # "tunnel" => \A i \in 1..Len(c) : ~Is200(c[i])

\* A direct tunnel is established and data has followed the six writes.
C10_Witness ==
  /\ phase = "tunnel"
  /\ upstreamProxy = "none"
  /\ Len(ClientChunks) = 7

\* C11: when the client stream is destroyed or its readyState is not open
\* as a validated CONNECT is handled, the request is aborted with nothing
\* written to the client stream and no dial started.
C11_AbortWritesNothing ==
  phase = "aborted" => (ClientChunks = <<>> /\ dials = <<>>)

\* ---------------------------------------------------- forward-fetch claims

\* An outbound request was made for the request.
Forwarded == phase = "request" /\ proxyReq.state # "none"

\* The request's url is an absolute http:// or https:// URL.
AbsoluteHttpUrl(u) ==
  \/ Len(u) >= 7 /\ SubSeq(u, 1, 7) = <<"h","t","t","p",":","/","/">>
  \/ Len(u) >= 8 /\ SubSeq(u, 1, 8) = <<"h","t","t","p","s",":","/","/">>

\* Header names that start with sec-websocket-.
SecWebsocketNames ==
  {"sec-websocket-key", "sec-websocket-version", "sec-websocket-protocol",
   "sec-websocket-extensions", "sec-websocket-accept"}

\* C12: no header of the client named host, proxy-connection,
\* proxy-authorization, connection or upgrade, and none whose name starts
\* with sec-websocket-, is carried by the outbound request.
C12_ForbiddenHeadersStripped ==
  Forwarded =>
    \A h \in options.headers :
      h \in req.headers =>
        h[1] \notin {"host", "proxy-connection", "proxy-authorization",
                     "connection", "upgrade"} \cup SecWebsocketNames

\* The authority of an absolute http(s) URL as the Host header should carry
\* it: the hostname, followed by ":" and the port unless the URL has no port
\* or the default port of its scheme.
ExpectedHost(u) ==
  LET https == SubSeq(u, 1, 8) = <<"h","t","t","p","s",":","/","/">>
      rest == SubSeq(u, (IF https THEN 9 ELSE 8), Len(u))
      authority == SubSeq(rest, 1, FirstOf(rest, {"/", "?", "#"}) - 1)
      colon == FirstOf(authority, {":"})
      name == SubSeq(authority, 1, colon - 1)
      portNumber == DigitsValue(SubSeq(authority, colon + 1, Len(authority)))
  IN  IF colon > Len(authority) \/ portNumber = (IF https THEN 443 ELSE 80)
      THEN name
      ELSE name \o <<":">> \o ToDigits(portNumber)

\* C13: the outbound request has exactly one Host header, its value is the
\* target URL's authority without a default port, and the client's Host
\* header is not forwarded.
C13_OutboundHost ==
  Forwarded =>
    /\ {h \in options.headers : h[1] = "host"} = {<<"host", ExpectedHost(req.url)>>}
    /\ \A h \in req.headers : h[1] = "host" => h \notin options.headers

\* A request for http://a:443/ was forwarded with Host a:443 in place of the
\* client's Host header.
C13_Witness ==
  /\ Forwarded
  /\ <<"host", <<"p","r","o","x","y">>>> \in req.headers
  /\ <<"host", <<"a",":","4","4","3">>>> \in options.headers

\* A Host header that is missing, longer than 255 characters or holds a
\* control or high-bit byte.
BadHostHeader(headers) ==
  \/ ~\E h \in headers : h[1] = "host"
  \/ \E h \in headers :
       /\ h[1] = "host"
       /\ \/ Len(h[2]) > 255
          \/ \E i \in 1..Len(h[2]) : h[2][i] \in {"<00>", "<1f>", "<7f>", "<ff>"}

ForwardableMethods == {"GET", "POST", "PUT", "DELETE", "HEAD", "PATCH"}

\* C14: an absolute-URI request whose Host header is missing, too long or
\* holds control or high-bit bytes is answered with 400 and the CONNECT
\* hint, and no outbound request is made for it.
C14_HostGuardOnForwardFetch ==
  ( /\ phase = "request"
    /\ req.method \in ForwardableMethods
    /\ AbsoluteHttpUrl(req.url)
    /\ BadHostHeader(req.headers) )
  => (res.statusCode = 400 /\ proxyReq.state = "none")

\* The request's url is absolute (scheme://...) with a scheme other than
\* http and https.
AbsoluteOtherScheme(u) ==
  /\ ~AbsoluteHttpUrl(u)
  /\ \E i \in 1..(Len(u) - 2) : SubSeq(u, i, i + 2) = <<":", "/", "/">>

\* C15: a request with a method outside the allowed set is answered with
\* 405 and a request whose absolute URL is not http: or https: with 400;
\* neither produces an outbound request.
C15_MethodAndSchemeRejected ==
  /\ (phase = "request" /\ req.method \notin (ForwardableMethods \cup {"OPTIONS"}))
       => (res.statusCode = 405 /\ proxyReq.state = "none")
  /\ (phase = "request" /\ req.method \in ForwardableMethods
        /\ AbsoluteOtherScheme(req.url))
       => (res.statusCode = 400 /\ proxyReq.state = "none")

\* The request's url is in origin form (a path).
OriginForm(u) == u # <<>> /\ u[1] = "/"

StatusPageSent ==
  /\ res.statusCode = 200
  /\ res.contentType = "text/html; charset=utf-8"
  /\ res.finished

\* C16 as stated: every origin-form request is answered with the 200
\* text/html status page and nothing is dialed for it.
C16_OriginFormStatusPage_Original ==
  (phase = "request" /\ OriginForm(req.url)) =>
    (StatusPageSent /\ proxyReq.state = "none" /\ dials = <<>>)

\* C16: no origin-form request is forwarded or dialed; it is answered with
\* the 200 text/html status page when its method is GET, POST, PUT, DELETE,
\* HEAD or PATCH and its Host header is acceptable, with a bare 200 when
\* its method is OPTIONS, with 405 for any other method, and with 400 when
\* the method is allowed and the Host header is missing or suspicious.
C16_OriginFormStatusPage ==
  (phase = "request" /\ OriginForm(req.url)) =>
    /\ proxyReq.state = "none" /\ dials = <<>> /\ options.agent = "none"
    /\ res.finished
    /\ IF req.method = "OPTIONS" THEN res.statusCode = 200 /\ res.contentType = ""
       ELSE IF req.method \notin ForwardableMethods THEN res.statusCode = 405
       ELSE IF BadHostHeader(req.headers) THEN res.statusCode = 400
       ELSE StatusPageSent

\* GET / with a plain Host header got the status page.
C16_Witness ==
  /\ phase = "request"
  /\ req.url = <<"/">>
  /\ req.method = "GET"
  /\ StatusPageSent
  /\ proxyReq.state = "none"

\* C17: once the outbound request has failed before a response head arrived
\* and its 'error' listener has run, the client response is the 502 with the
\* error string, finished, written by a single writeHead; writeHead is never
\* called twice on a response.
C17_ErrorBeforeHeadersGives502 ==
  /\ res.writeHeadCalls <= 1
  /\ ( /\ proxyReq.state = "sent"
       /\ proxyReq.destroyed
       /\ ~proxyReq.timedOut
       /\ ~proxyReq.errorPending )
     => /\ res.statusCode = 502
        /\ res.body = "proxy error: " \o proxyReq.error
        /\ res.finished
        /\ res.writeHeadCalls = 1

\* A refused outbound connection was reported to the client as 502.
C17_Witness ==
  /\ proxyReq.state = "sent"
  /\ proxyReq.error = "ECONNREFUSED"
  /\ ~proxyReq.errorPending
  /\ res.statusCode = 502

\* C18: when the outbound request was torn down (error or timeout) after
\* the response head was sent to the client and every listener has run,
\* the client response is finished or the client connection destroyed.
C18_MidStreamFailureClosesBoth ==
  ( /\ proxyReq.state = "responding"
    /\ proxyReq.destroyed
    /\ ~proxyReq.errorPending )
  => (res.finished \/ client.destroyed)

\* ---------------------------------------------------------- resolver claims

\* The value of the first variable of the priority list that satisfies test.
FirstValue(e, test(_)) ==
  LET names == <<"https_proxy", "HTTPS_PROXY", "http_proxy", "HTTP_PROXY",
                 "all_proxy", "ALL_PROXY">>
      value(i) == IF names[i] \in DOMAIN e THEN e[names[i]] ELSE <<>>
      hits == {i \in 1..6 : test(value(i))}
  IN  IF hits = {} THEN <<>> ELSE value(CHOOSE i \in hits : \A j \in hits : i <= j)

NonEmpty(v) == v # <<>>
NonBlank(v) == \E i \in 1..Len(v) : v[i] # " "

\* The proxy setting a value stands for: the scheme of its URL, "none" for
\* no value, "blank" for a value of white space only.
SettingOf(v) ==
  IF v = <<>> THEN "none"
  ELSE IF NonBlank(v) THEN v[CHOOSE i \in 1..Len(v) : v[i] # " " /\ \A j \in 1..(i-1) : v[j] = " "]
  ELSE "blank"

\* C19 as stated: at every moment the upstream is the first non-empty value
\* of the priority list, direct when every variable is empty or unset.
C19_FirstNonEmptyWins_Original ==
  upstreamProxy = SettingOf(FirstValue(env, NonEmpty))

\* C19: at every moment the upstream is the first value of the priority
\* list that is not empty after trimming white space, trimmed; later
\* variables are ignored; it is direct when every variable is unset, empty
\* or blank.
C19_FirstNonEmptyWins ==
  upstreamProxy = SettingOf(FirstValue(env, NonBlank))

\* A tunnel runs through the upstream of http_proxy, found after an empty
\* HTTPS_PROXY and ahead of HTTP_PROXY and all_proxy.
C19_Witness ==
  /\ phase = "tunnel"
  /\ upstreamProxy = "http"
  /\ "https_proxy" \notin DOMAIN env
  /\ env["HTTPS_PROXY"] = <<>>
  /\ env["http_proxy"] = <<" ", "http", " ">>
  /\ env["HTTP_PROXY"] = <<"ftp">>

\* C20: with an upstream URL of an unrecognized scheme every validated
\* CONNECT request is dialed directly and every forwarded request uses the
\* agent of a direct connection.
C20_UnknownSchemeIsDirect ==
  upstreamProxy \notin {"none", "http", "https", "socks5", "socks4"} =>
    /\ phase \in {"dialing", "proxyDialing", "failed", "abandoned", "tunnel"}
         => (dials # <<>> /\ dials[1].via = "direct")
    /\ Forwarded => options.agent \in {"https.Agent", "globalAgent"}

\* ------------------------------------------------------ later CONNECT claims

\* The CONNECT target [::1]:443.
BracketedIPv6Target == <<"[", ":", ":", "1", "]", ":", "4", "4", "3">>

\* C21: a CONNECT request for the bracketed IPv6 authority [::1]:443 on a
\* live client socket is not rejected: an outbound connection to port 443
\* is started for it.
C21_BracketedIPv6Accepted ==
  [][ ( /\ \E h \in {"", "<head>"} : HandleConnect(BracketedIPv6Target, h)
        /\ ~client.destroyed
        /\ ~client.readableEnded )
      => ( /\ phase' \in {"dialing", "proxyDialing", "failed"}
           /\ phase' # "failed" => (dials' # <<>> /\ dials'[1].port = 443) ) ]_vars

\* ------------------------------------------------------- process claims

\* C22: when the process has exited on SIGINT or SIGTERM, the listener was
\* stopped before and no connection was left in flight: at the moment of
\* process.exit the server listens no more and every connection is closed.
C22_GracefulShutdown ==
  (proc = "exited" /\ signal # "none") =>
    /\ ~listening
    /\ \A c \in ConnIds : conns[c].state \in {"none", "ended", "destroyed"}

\* C23: a startup that failed (the port could not be bound, the TLS key or
\* certificate was missing or unusable) has ended the process with code 1,
\* and a process that ended with code 0 was shut down by a signal.
C23_ExitCodes ==
  /\ startup \in {"bind", "tlsMissing", "tlsInvalid"} =>
       (proc = "exited" /\ exitCode = 1)
  /\ (proc = "exited" /\ exitCode = 0) => signal # "none"

\* C24: an uncaught exception, an unhandled rejection or an 'error' event of
\* the listening server is logged and leaves the process running and the
\* listener listening.
C24_FaultsKeepServiceUp ==
  [][ \A kind \in FaultKinds :
        Fault(kind) =>
          /\ proc' = "running"
          /\ listening'
          /\ exitCode' = -1
          /\ <<kind, "error">> \in lastLog'.entries ]_vars

\* A fault was handled and the listener accepted a connection.
C24_Witness ==
  /\ lastLog.event = "uncaughtException"
  /\ proc = "running"
  /\ listening
  /\ \E c \in ConnIds : conns[c].state = "handshaking"

\* C25: whatever the error, a 'clientError' on a connection whose socket is
\* not destroyed sends the client 400 Bad Request and closes the connection.
C25_ClientErrorGets400 ==
  [][ \A c \in ConnIds, err \in Errors :
        ClientError(c, err, FALSE) =>
          /\ conns'[c].out = BadRequestReply
          /\ conns'[c].state \in {"ended", "destroyed"} ]_vars

\* C26: whatever the error, a 'tlsClientError' leaves the connection's socket
\* ended or destroyed and changes no other connection, nor the listener, nor
\* the process.
C26_TlsFailureClosesSocket ==
  [][ \A c \in ConnIds, err \in Errors, d \in BOOLEAN :
        TlsClientError(c, err, d) =>
          /\ conns'[c].state \in {"ended", "destroyed"}
          /\ \A o \in ConnIds \ {c} : conns'[o] = conns[o]
          /\ listening' = listening
          /\ proc' = proc ]_vars

\* A handshake failed for an error that is no protocol error while another
\* connection was open.
C26_Witness ==
  /\ lastLog.event = "tlsClientError"
  /\ ~IsProtocolError(lastLog.err)
  /\ \E c \in ConnIds : conns[c].state = "ended" /\ conns[c].out = ""
  /\ \E c \in ConnIds : conns[c].state = "open"

BenignDropPhrases ==
  {"ECONNRESET", "EPIPE", "ENOTCONN", "socket hang up",
   "Client network socket disconnected", "before secure TLS connection"}

\* The pipes' listeners, the splicer's, and the two server-level handlers.
FilteringHandlers == {"pipe", "splicer", "clientError", "tlsClientError"}

\* C27: an error whose message carries one of the benign-drop phrases gets
\* no error-level entry from the pipes' listeners, the splicer's listeners,
\* the 'clientError' handler or the 'tlsClientError' handler.
C27_BenignDropsNotErrors ==
  (lastLog.err.message \cap BenignDropPhrases # {}) =>
    \A e \in lastLog.entries : e[1] \in FilteringHandlers => e[2] # "error"

\* ------------------------------------------------------ later tunnel claims

\* The hostnames the splicer takes for WebSocket endpoints.
WebSocketHost(h) == includesText(h, Tradingview)

\* C28: once a tunnel is spliced the idle timeout of the client socket and of
\* the outbound socket is 120 s when the target port is 443 or the hostname
\* is a WebSocket one, 60 s otherwise.
C28_SplicingIdleTimeout ==
  phase = "tunnel" =>
    LET expected == IF targetPort.val = 443 \/ WebSocketHost(hostname)
                    THEN 120000 ELSE 60000
    IN  client.timeout = expected /\ outbound.timeout = expected

\* C29: when 'end' of one side of a tunnel is delivered while both sockets
\* are alive and the other side has not reached EOF, the peer's write side
\* is ended and neither socket is destroyed.
C29_HalfClose ==
  [][ \A side \in Sides :
        ( /\ Deliver(side, "end")
          /\ phase = "tunnel"
          /\ ~client.destroyed
          /\ ~outbound.destroyed
          /\ ~Sock(IO, Peer(side)).readableEnded )
        => ( /\ ~client'.destroyed
             /\ ~outbound'.destroyed
             /\ IF side = "client" THEN outbound'.writableEnded
                ELSE client'.writableEnded ) ]_vars

\* The error status lines the client socket was handed.
ErrorResponses ==
  {i \in DOMAIN writes :
     /\ writes[i].to = "client"
     /\ writes[i].chunk \in {StatusLine("400 Bad Request"), StatusLine("502 Bad Gateway"),
                              StatusLine("504 Gateway Timeout")}}

\* C30: for one CONNECT request the client socket is handed at most one
\* error response, and nothing is written to it after it was ended.
C30_OneErrorResponse ==
  /\ Cardinality(ErrorResponses) <= 1
  /\ ~client.writeAfterEnd

\* C31: when 'end' of one side of a tunnel is delivered while both sockets
\* are alive, the peer is not destroyed while piped chunks are still in its
\* write buffer: what was read before the EOF is written out first.
C31_NoLossOnEnd ==
  [][ \A side \in Sides :
        ( /\ Deliver(side, "end")
          /\ phase = "tunnel"
          /\ ~client.destroyed
          /\ ~outbound.destroyed )
        => \/ Sock(IO, Peer(side)).writableLength = 0
           \/ IF side = "client" THEN ~outbound'.destroyed ELSE ~client'.destroyed ]_vars

\* The outbound dial is in progress.
Dialing == phase \in {"dialing", "proxyDialing"}

\* The dial completes: the connect callback of the direct path, or the
\* 'connect' event of the request sent to the upstream.
DialCompletes ==
  \/ DialConnected
  \/ \E r \in UpstreamReplies : ProxyReqConnect(r.status, r.proxyHead)

\* C32: once the client socket is destroyed while the dial is in progress,
\* no step writes anything (no 200 in particular) or installs the splice,
\* and the step that completes the dial destroys the outbound socket.
C32_NoTunnelForGoneClient ==
  [][ (Dialing /\ client.destroyed) =>
        /\ writes' = writes
        /\ phase' # "tunnel"
        /\ ~piped'
        /\ ~tickPending'
        /\ DialCompletes => (outbound'.destroyed /\ phase' = "abandoned") ]_vars

\* The client went away during the dial, the dial completed and the outbound
\* socket was destroyed.
C32_Witness ==
  /\ phase = "abandoned"
  /\ client.destroyed
  /\ outbound.state = "open"
  /\ outbound.destroyed
  /\ writes = <<>>

============================================================================
